---- MODULE Spec2Model ----
(***************************************************************************)
(* A model of whatsapp-mcp-server/supabase_client.py: the message store    *)
(* facade over the two remote collections "conversations" and "messages".  *)
(*                                                                         *)
(* Strings are sequences of one-character strings, so that split('@'),     *)
(* endswith and the store's ilike pattern match are computed, not assumed. *)
(* Timestamps are integers (a total order, as timestamptz is).             *)
(* A query without ORDER BY, or whose ORDER BY leaves ties, returns its    *)
(* rows in an order the store chooses: every such order is an outcome.     *)
(* A remote call may fail; the call that fails is the input "fault".       *)
(***************************************************************************)
EXTENDS Integers, Sequences, FiniteSets, TLC

VARIABLES
    convs,   \* the "conversations" collection: row i has id i
    msgs,    \* the "messages" collection: row i has id i
    clock,   \* the last value datetime.utcnow() returned
    saved,   \* history: the successful save_message calls, in order
    ret      \* the last operation: its name, arguments, fault and result

vars == <<convs, msgs, clock, saved, ret>>

(* ------------------------------ values -------------------------------- *)

\* Python's None where a string is expected: no string, since "None" is not
\* one character.
None == <<"None">>

\* Python's None where a timestamp or an id is expected.
NoneInt == -1

EmptyStr == <<>>

\* Python truthiness of an optional string: neither None nor "".
Truthy(s) == s # None /\ s # EmptyStr

\* The channel of every row this module reads or writes; it is only ever
\* compared for equality.
WHATSAPP == "whatsapp"

GroupSuffix == <<"@", "g", ".", "u", "s">>

UserSuffix == <<"@", "s", ".", "w", "h", "a", "t", "s", "a", "p", "p", ".", "n", "e", "t">>

UpperChars == <<"A", "B", "C", "D", "E", "F", "G", "H", "I", "J", "K", "L", "M",
                "N", "O", "P", "Q", "R", "S", "T", "U", "V", "W", "X", "Y", "Z">>

LowerChars == <<"a", "b", "c", "d", "e", "f", "g", "h", "i", "j", "k", "l", "m",
                "n", "o", "p", "q", "r", "s", "t", "u", "v", "w", "x", "y", "z">>

DigitChars == <<"0", "1", "2", "3", "4", "5", "6", "7", "8", "9">>

UpperSet == {UpperChars[i] : i \in 1..Len(UpperChars)}

UpperToLower ==
    [ch \in UpperSet |-> LowerChars[CHOOSE i \in 1..Len(UpperChars) : UpperChars[i] = ch]]

\* Case folding of one character, as ILIKE compares.
Lower(ch) == IF ch \in UpperSet THEN UpperToLower[ch] ELSE ch

\* s ILIKE p. match[i, j]: s from its i-th character on matches p
\* from its j-th character on, case-insensitively; % (and PostgREST's alias
\* *) matches any run of characters, _ any one character.
ILike(s, p) ==
    LET match[i \in 1..(Len(s) + 1), j \in 1..(Len(p) + 1)] ==
            IF j > Len(p) THEN i > Len(s)
            ELSE IF p[j] = "%" \/ p[j] = "*"
                 THEN match[i, j + 1] \/ (i <= Len(s) /\ match[i + 1, j])
                 ELSE /\ i <= Len(s)
                      /\ (p[j] = "_" \/ p[j] = s[i] \/ Lower(p[j]) = Lower(s[i]))
                      /\ match[i + 1, j + 1]
    IN match[1, 1]

\* column ILIKE pattern on a nullable column: NULL matches nothing.
ColILike(v, p) == v # None /\ ILike(v, p)

\* f'%{q}%'
Contains(q) == <<"%">> \o q \o <<"%">>

\* str.endswith
EndsWith(s, suf) ==
    /\ Len(s) >= Len(suf)
    /\ SubSeq(s, Len(s) - Len(suf) + 1, Len(s)) = suf

HasAt(s) == \E i \in 1..Len(s) : s[i] = "@"

\* s.split('@')[0] if '@' in s else s
BeforeAt(s) ==
    IF HasAt(s)
    THEN SubSeq(s, 1, (CHOOSE i \in 1..Len(s) :
                          s[i] = "@" /\ \A j \in 1..(i - 1) : s[j] # "@") - 1)
    ELSE s

\* Plain (case-sensitive) substring, the words of the specification.
IsSubstring(q, s) ==
    \E i \in 0..(Len(s) - Len(q)) : SubSeq(s, i + 1, i + Len(q)) = q

(* -------------------------- the remote store --------------------------- *)

\* The orders in which rows that ORDER BY does not tell apart may come.
RECURSIVE TiedOrders(_)
TiedOrders(G) ==
    IF G = {} THEN {<<>>}
    ELSE UNION {{<<x>> \o t : t \in TiedOrders(G \ {x})} : x \in G}

\* The orderings of the rows of S whose rank is in R: lowest rank first, rows
\* of equal rank in any order.
RECURSIVE OrderByRank(_, _, _)
OrderByRank(S, k, R) ==
    IF R = {} THEN {<<>>}
    ELSE LET lowest == CHOOSE r \in R : \A q \in R : r <= q
         IN {h \o t : h \in TiedOrders({x \in S : k[x] = lowest}),
                      t \in OrderByRank(S, k, R \ {lowest})}

\* The orders in which the store may return the rows S under ORDER BY k
\* ascending (k: a rank for each row id, a sequence computed once).
Orderings(S, k) ==
    LET ranks == k \o <<>>
    IN OrderByRank(S, ranks, {ranks[x] : x \in S})

\* .limit(n)
Limit(s, n) == SubSeq(s, 1, IF Len(s) < n THEN Len(s) ELSE n)

\* .range(from, to), both inclusive, 0-based
Range(s, from, to) ==
    SubSeq(s, from + 1, IF Len(s) < to + 1 THEN Len(s) ELSE to + 1)

\* The rows a limit(1) query without ORDER BY may return: any of S, 0 when
\* S is empty.
AnyOf(S) == IF S = {} THEN {0} ELSE S

ConvIds == 1..Len(convs)

MsgIds == 1..Len(msgs)

\* A lookup that never finds a row.
ConvsByIdentifierNone(jid) == {}

\* conversations.eq('contact_identifier', jid).eq('channel', 'whatsapp')
ConvsByIdentifier(jid) ==
    {i \in ConvIds : convs[i].contact_identifier = jid /\ convs[i].channel = WHATSAPP}

\* select('*, conversations!inner(contact_identifier, contact_name)'): the
\* message row with its owning conversation's two columns joined in.
Joined(i) ==
    [id |-> i,
     row |-> msgs[i],
     conversations |->
        [contact_identifier |-> convs[msgs[i].conversation_id].contact_identifier,
         contact_name |-> convs[msgs[i].conversation_id].contact_name]]

\* select('*') without the join: row.get('conversations', {}) is {}
Unjoined(i) ==
    [id |-> i,
     row |-> msgs[i],
     conversations |-> [contact_identifier |-> EmptyStr, contact_name |-> None]]

(* ----------------------------- faults ---------------------------------- *)

\* The remote call that fails during one operation: none; the operation's
\* own k-th call ("query"); the k-th call of the get_message_context made for
\* the i-th message of the page ("ctx"); the k-th call of the
\* get_sender_name made for the i-th formatted line ("name"); the
\* last-message query made for the i-th listed chat ("last").
NoFault == [at |-> "none", i |-> 0, k |-> 0]

Fault(at, i, k) == [at |-> at, i |-> i, k |-> k]

(* --------------------------- pure helpers ------------------------------ *)

ME == <<"M", "e">>

\* conversations.ilike('contact_identifier', f'%{phone_part}%')
\*              .eq('channel', 'whatsapp')
ConvsContaining(phone_part) ==
    {i \in ConvIds : convs[i].channel = WHATSAPP
                     /\ ILike(convs[i].contact_identifier, Contains(phone_part))}

\* What get_sender_name returns given the row p its query returned (0: no
\* row), or no value when that row gives no name.
NameOf(p) ==
    IF p # 0 /\ Truthy(convs[p].contact_name)
    THEN {[value |-> convs[p].contact_name, failed |-> FALSE]}
    ELSE {}

\* The second, fuzzy lookup of get_sender_name and its fallback.
SecondLookup(sender_jid, k) ==
    IF k = 2 THEN {[value |-> sender_jid, failed |-> TRUE]}
    ELSE UNION {IF NameOf(p) # {} THEN NameOf(p)
                ELSE {[value |-> sender_jid, failed |-> FALSE]}
                : p \in AnyOf(ConvsContaining(BeforeAt(sender_jid)))}

\* get_sender_name without its first, exact lookup.
get_sender_name_fuzzy_only(sender_jid, k) ==
    IF k = 1 THEN {[value |-> sender_jid, failed |-> TRUE]}
    ELSE SecondLookup(sender_jid, k)

\* get_sender_name(sender_jid) with its k-th remote call failing (k = 0:
\* none). The set of possible outcomes: each limit(1) query has no ORDER BY.
get_sender_name(sender_jid, k) ==
    IF k = 1 THEN {[value |-> sender_jid, failed |-> TRUE]}
    ELSE UNION {IF NameOf(p) # {} THEN NameOf(p)
                ELSE SecondLookup(sender_jid, k)
                : p \in AnyOf(ConvsByIdentifier(sender_jid))}

\* _row_to_message taking the chat from the sender of an outbound message
\* and from the recipient of an inbound one.
row_to_message_swapped(j, conversation_name) ==
    LET is_from_me == j.row.direction = "outbound"
        first == IF is_from_me THEN j.row.sender ELSE j.row.recipient
    IN [timestamp |-> j.row.created_at,
        sender |-> j.row.sender,
        content |-> j.row.body,
        is_from_me |-> is_from_me,
        chat_jid |-> IF Truthy(first) THEN first
                     ELSE j.conversations.contact_identifier,
        id |-> j.id,
        chat_name |-> IF Truthy(conversation_name) THEN conversation_name
                      ELSE j.conversations.contact_name,
        media_type |-> j.row.metadata]

\* _row_to_message(row, conversation_name)
row_to_message(j, conversation_name) ==
    LET is_from_me == j.row.direction = "outbound"
        first == IF is_from_me THEN j.row.recipient ELSE j.row.sender
    IN [timestamp |-> j.row.created_at,
        sender |-> j.row.sender,
        content |-> j.row.body,
        is_from_me |-> is_from_me,
        chat_jid |-> IF Truthy(first) THEN first
                     ELSE j.conversations.contact_identifier,
        id |-> j.id,
        chat_name |-> IF Truthy(conversation_name) THEN conversation_name
                      ELSE j.conversations.contact_name,
        media_type |-> j.row.metadata]

\* format_message(message, show_chat_info): the line's parts, in the order
\* the f-strings put them; k is the failing call of its get_sender_name.
format_message(message, show_chat_info, k) ==
    LET names == IF message.is_from_me
                 THEN {[value |-> ME, failed |-> FALSE]}
                 ELSE get_sender_name(message.sender, k)
    IN {[line |->
            [stamp |-> message.timestamp,
             chat |-> IF show_chat_info /\ Truthy(message.chat_name)
                      THEN message.chat_name ELSE None,
             from |-> n.value,
             prefix |-> IF Truthy(message.media_type)
                        THEN <<message.media_type, message.id, message.chat_jid>>
                        ELSE <<>>,
             content |-> message.content],
         failed |-> n.failed] : n \in names}

\* The loop of format_messages_list from line pos on.
RECURSIVE FormatLines(_, _, _, _)
FormatLines(messages, show_chat_info, fault, pos) ==
    IF messages = <<>> THEN {[lines |-> <<>>, failed |-> FALSE]}
    ELSE {[lines |-> <<h.line>> \o t.lines, failed |-> h.failed \/ t.failed] :
            h \in format_message(Head(messages), show_chat_info,
                                 IF fault.at = "name" /\ fault.i = pos
                                 THEN fault.k ELSE 0),
            t \in FormatLines(Tail(messages), show_chat_info, fault, pos + 1)}

\* "No messages to display."
NoMessages == [kind |-> "no_messages"]

\* format_messages_list(messages, show_chat_info)
format_messages_list(messages, show_chat_info, fault) ==
    IF messages = <<>> THEN {[text |-> NoMessages, failed |-> FALSE]}
    ELSE {[text |-> [kind |-> "lines", lines |-> f.lines], failed |-> f.failed] :
            f \in FormatLines(messages, show_chat_info, fault, 1)}

Reverse(s) == [i \in 1..Len(s) |-> s[Len(s) + 1 - i]]

\* The value of a call that raised.
Raised == [kind |-> "raised"]

\* RowsBefore with .lte in place of .lt: rows at the anchor's own timestamp
\* (the anchor among them) enter the before-window.
RowsBeforeLte(c, t) ==
    {i \in MsgIds : msgs[i].conversation_id = c /\ msgs[i].created_at <= t}

\* The message rows of conversation c created strictly before / after t.
RowsBefore(c, t) ==
    {i \in MsgIds : msgs[i].conversation_id = c /\ msgs[i].created_at < t}

RowsAfter(c, t) ==
    {i \in MsgIds : msgs[i].conversation_id = c /\ msgs[i].created_at > t}

Ascending == [i \in MsgIds |-> msgs[i].created_at]

Descending == [i \in MsgIds |-> 0 - msgs[i].created_at]

ToMessages(ids) == [n \in 1..Len(ids) |-> row_to_message(Joined(ids[n]), None)]

(* ------------------------- get_message_context ------------------------- *)

\* get_message_context answering a missing anchor with an empty context
\* instead of raising.
EmptyContextOnMissing(message_id, before, after, k) ==
    IF message_id \notin MsgIds
    THEN {[raised |-> FALSE,
           value |-> [kind |-> "context", message |-> None, before |-> <<>>,
                      after |-> <<>>],
           failed |-> FALSE]}
    ELSE {[raised |-> TRUE, value |-> Raised, failed |-> TRUE]}

\* get_message_context(message_id, before, after) with its k-th remote call
\* failing (k = 0: none): the possible outcomes. A missing row makes
\* .single() fail or leaves result.data empty; either way the function raises.
get_message_context(message_id, before, after, k) ==
    IF k = 1 \/ message_id \notin MsgIds \/ k = 2 \/ k = 3
    THEN {[raised |-> TRUE, value |-> Raised,
           failed |-> k = 1 \/ (message_id \in MsgIds /\ k \in {2, 3})]}
    ELSE LET conversation_id == msgs[message_id].conversation_id
             target_timestamp == msgs[message_id].created_at
             befores == {Reverse(Limit(b, before)) :
                           b \in Orderings(RowsBefore(conversation_id, target_timestamp),
                                           Descending)}
             afters == {Limit(a, after) :
                          a \in Orderings(RowsAfter(conversation_id, target_timestamp),
                                          Ascending)}
         IN {[raised |-> FALSE,
              value |-> [kind |-> "context",
                         message |-> row_to_message(Joined(message_id), None),
                         before |-> ToMessages(b),
                         after |-> ToMessages(a)],
              failed |-> FALSE] : b \in befores, a \in afters}

(* ------------------------------- writes -------------------------------- *)

\* The row save_message inserts into "conversations".
NewConversation(conversation_jid) ==
    [channel |-> WHATSAPP,
     contact_identifier |-> conversation_jid,
     contact_name |-> None,
     status |-> "active",
     last_message_at |-> NoneInt]

\* GetOrCreate undoing the insert when a later call fails.
GetOrCreateRolledBack(conversation_jid, k) ==
    IF ConvsByIdentifier(conversation_jid) = {} /\ k = 0
    THEN Append(convs, NewConversation(conversation_jid))
    ELSE convs

\* "conversations" after the get-or-create step of save_message, when the
\* call that fails is k: the row is inserted when the lookup succeeded and
\* found nothing, and the insert succeeded.
GetOrCreate(conversation_jid, k) ==
    IF ConvsByIdentifier(conversation_jid) = {} /\ k \notin {1, 2}
    THEN Append(convs, NewConversation(conversation_jid))
    ELSE convs

\* message_data of save_message
MessageData(conversation_id, sender, recipient, body, direction, external_id, media_type, now) ==
    [conversation_id |-> conversation_id,
     channel |-> WHATSAPP,
     direction |-> direction,
     sender |-> sender,
     recipient |-> recipient,
     body |-> body,
     created_at |-> now,
     updated_at |-> now,
     topic |-> "chat",
     extension |-> "text",
     external_id |-> external_id,
     metadata |-> IF Truthy(media_type) THEN media_type ELSE None]

\* save_message(...), timestamp = NoneInt for "not given" (then now is read
\* from the clock, which never runs backwards), with its k-th remote call
\* failing: 1 the conversation lookup, 2 the conversation insert, 3 the
\* message insert, 4 the last_message_at update (0: none).
save_message(conversation_jid, sender, recipient, body, direction, external_id, media_type, timestamp, now, k) ==
    LET found == ConvsByIdentifier(conversation_jid)
        args == [conversation_jid |-> conversation_jid, sender |-> sender,
                 recipient |-> recipient, body |-> body, direction |-> direction,
                 external_id |-> external_id, media_type |-> media_type,
                 timestamp |-> timestamp]
        done(result, failed) ==
            ret' = [op |-> "save_message", args |-> args, fault |-> k,
                    failed |-> failed, raised |-> FALSE, result |-> result]
    IN /\ IF timestamp = NoneInt THEN now >= clock ELSE now = timestamp
       /\ k = 2 => found = {}
       /\ IF k = 1
          THEN /\ done(NoneInt, TRUE)
               /\ UNCHANGED <<convs, msgs, clock, saved>>
          ELSE \E c \in (IF found = {} THEN {Len(convs) + 1} ELSE found) :
                 LET convs1 == GetOrCreate(conversation_jid, k)
                 IN IF k = 2
                    THEN /\ done(NoneInt, TRUE)
                         /\ UNCHANGED <<convs, msgs, clock, saved>>
                    ELSE IF k = 3
                    THEN /\ done(NoneInt, TRUE)
                         /\ convs' = convs1
                         /\ clock' = IF timestamp = NoneInt THEN now ELSE clock
                         /\ UNCHANGED <<msgs, saved>>
                    ELSE /\ msgs' = Append(msgs,
                                  MessageData(c, sender, recipient, body, direction,
                                              external_id, media_type, now))
                         /\ clock' = IF timestamp = NoneInt THEN now ELSE clock
                         /\ IF k = 4
                            THEN /\ done(NoneInt, TRUE)
                                 /\ convs' = convs1
                                 /\ UNCHANGED saved
                            ELSE /\ done(Len(msgs) + 1, FALSE)
                                 /\ convs' = [convs1 EXCEPT ![c].last_message_at = now]
                                 /\ saved' = Append(saved,
                                       [id |-> Len(msgs) + 1, args |-> args])

\* update_contact_name(jid, name), its one remote call failing when k = 1.
update_contact_name(jid, name, k) ==
    /\ ret' = [op |-> "update_contact_name", args |-> [jid |-> jid, name |-> name],
               fault |-> k, failed |-> k = 1, raised |-> FALSE, result |-> k # 1]
    /\ convs' = IF k = 1 THEN convs
                ELSE [i \in ConvIds |->
                        IF i \in ConvsByIdentifier(jid)
                        THEN [convs[i] EXCEPT !.contact_name = name]
                        ELSE convs[i]]
    /\ UNCHANGED <<msgs, clock, saved>>

\* A read: the store is left as it is.
Read(op, args, fault, outcome) ==
    /\ ret' = [op |-> op, args |-> args, fault |-> fault, failed |-> outcome.failed,
               raised |-> outcome.raised, result |-> outcome.value]
    /\ UNCHANGED <<convs, msgs, clock, saved>>

\* The store before anything was saved.
Init ==
    /\ convs = <<>>
    /\ msgs = <<>>
    /\ clock = 1
    /\ saved = <<>>
    /\ ret = [op |-> "init"]

(* ---------------------------- list_messages ---------------------------- *)

\* f"Error: {e}"
ErrorText == [kind |-> "error"]

\* The rows the filters of list_messages keep (an unset or empty filter is
\* not applied).
Filtered(after, before, sender_phone_number, chat_jid, query) ==
    {i \in MsgIds :
        /\ msgs[i].channel = WHATSAPP
        /\ after # NoneInt => msgs[i].created_at >= after
        /\ before # NoneInt => msgs[i].created_at <= before
        /\ Truthy(sender_phone_number) => msgs[i].sender = sender_phone_number
        /\ Truthy(chat_jid) =>
              convs[msgs[i].conversation_id].contact_identifier = chat_jid
        /\ Truthy(query) => ILike(msgs[i].body, Contains(query))}

Ids(messages) == [n \in 1..Len(messages) |-> messages[n].id]

\* The loop without the windows: every message of the page alone.
ExpandNoContext(page, n, context_before, context_after, fault) ==
    {[raised |-> FALSE, messages |-> ToMessages(page), failed |-> FALSE]}

\* The include_context loop over the page from its n-th message on: the
\* possible lists messages_with_context, or the exception that ends the loop.
RECURSIVE Expand(_, _, _, _, _)
Expand(page, n, context_before, context_after, fault) ==
    IF n > Len(page) THEN {[raised |-> FALSE, messages |-> <<>>, failed |-> FALSE]}
    ELSE UNION {
           IF c.raised THEN {[raised |-> TRUE, messages |-> <<>>, failed |-> c.failed]}
           ELSE {[raised |-> t.raised,
                  messages |-> c.value.before \o <<c.value.message>>
                                  \o c.value.after \o t.messages,
                  failed |-> t.failed] :
                    t \in Expand(page, n + 1, context_before, context_after, fault)}
           : c \in get_message_context(page[n], context_before, context_after,
                       IF fault.at = "ctx" /\ fault.i = n THEN fault.k ELSE 0)}

\* list_messages(...): the possible outcomes. page and expanded are the ids
\* of the query's rows and of the list handed to format_messages_list.
list_messages(after, before, sender_phone_number, chat_jid, query, limit, page, include_context, context_before, context_after, fault) ==
    IF fault.at = "query"
    THEN {[raised |-> FALSE, failed |-> TRUE,
           value |-> [text |-> ErrorText, page |-> <<>>, expanded |-> <<>>]]}
    ELSE LET offset == page * limit
             pages == {Range(o, offset, offset + limit - 1) :
                         o \in Orderings(Filtered(after, before, sender_phone_number,
                                                  chat_jid, query),
                                         Descending)}
             texts(rows, list) ==
                 {[raised |-> FALSE, failed |-> f.failed,
                   value |-> [text |-> f.text, page |-> rows, expanded |-> Ids(list)]] :
                    f \in format_messages_list(list, TRUE, fault)}
         IN UNION {
              IF include_context /\ rows # <<>>
              THEN UNION {IF e.raised
                          THEN {[raised |-> FALSE, failed |-> e.failed,
                                 value |-> [text |-> ErrorText, page |-> rows,
                                            expanded |-> <<>>]]}
                          ELSE texts(rows, e.messages)
                          : e \in Expand(rows, 1, context_before, context_after, fault)}
              ELSE texts(rows, ToMessages(rows))
              : rows \in pages}

(* ------------------------ reads of conversations ----------------------- *)

\* Characters in code-point order, the order ORDER BY contact_name is
\* modelled with.
Alphabet == <<".">> \o DigitChars \o <<"@">> \o UpperChars \o <<"_">> \o LowerChars

CharRank(ch) == CHOOSE i \in 1..Len(Alphabet) : Alphabet[i] = ch

RECURSIVE StrLess(_, _)
StrLess(a, b) ==
    IF b = <<>> THEN FALSE
    ELSE IF a = <<>> THEN TRUE
    ELSE IF Head(a) = Head(b) THEN StrLess(Tail(a), Tail(b))
    ELSE CharRank(Head(a)) < CharRank(Head(b))

\* LastActiveRank ordering oldest first.
LastActiveAscendingRank == [i \in ConvIds |-> convs[i].last_message_at]

\* order('last_message_at', desc=True, nullsfirst=False): NULL after all.
LastActiveRank ==
    [i \in ConvIds |-> IF convs[i].last_message_at = NoneInt THEN 1
                       ELSE 0 - convs[i].last_message_at]

\* order('last_message_at', desc=True): PostgreSQL puts NULL first when
\* descending.
LastActiveNullsFirstRank ==
    [i \in ConvIds |-> IF convs[i].last_message_at = NoneInt THEN 0 - 1000000
                       ELSE 0 - convs[i].last_message_at]

\* order('contact_name', nullsfirst=False): NULL after all.
NameRank ==
    [i \in ConvIds |->
        IF convs[i].contact_name = None THEN Len(convs) + 1
        ELSE Cardinality({j \in ConvIds : convs[j].contact_name # None
                             /\ StrLess(convs[j].contact_name, convs[i].contact_name)})]

\* or_('contact_name.ilike.%q%,contact_identifier.ilike.%q%')
NameOrIdentifierLike(i, query) ==
    \/ ColILike(convs[i].contact_name, Contains(query))
    \/ ILike(convs[i].contact_identifier, Contains(query))

\* not_.ilike('contact_identifier', '%@g.us')
NotGroup(i) == ~ILike(convs[i].contact_identifier, <<"%">> \o GroupSuffix)

\* messages.eq('conversation_id', c).order('created_at', desc=True).limit(1):
\* the rows it may return, 0 for none.
LastMessageOf(c) ==
    LET own == {i \in MsgIds : msgs[i].conversation_id = c}
    IN IF own = {} THEN {0}
       ELSE {i \in own : \A j \in own : msgs[j].created_at <= msgs[i].created_at}

NoneResult == [kind |-> "None"]

\* asdict(Chat(...)) of list_chats for conversation row c, with the last
\* message row m merged in (m = 0: none).
ChatOf(c, m) ==
    [jid |-> convs[c].contact_identifier,
     name |-> convs[c].contact_name,
     last_message_time |-> convs[c].last_message_at,
     last_message |-> IF m = 0 THEN None ELSE msgs[m].body,
     last_sender |-> IF m = 0 THEN None ELSE msgs[m].sender,
     last_is_from_me |-> IF m = 0 THEN None ELSE msgs[m].direction = "outbound"]

\* The dict of get_chat and get_direct_chat_by_contact: the three last_* keys
\* are set only when a last message was found.
ChatDict(c, m) ==
    IF m = 0
    THEN [jid |-> convs[c].contact_identifier,
          name |-> convs[c].contact_name,
          last_message_time |-> convs[c].last_message_at]
    ELSE [jid |-> convs[c].contact_identifier,
          name |-> convs[c].contact_name,
          last_message_time |-> convs[c].last_message_at,
          last_message |-> msgs[m].body,
          last_sender |-> msgs[m].sender,
          last_is_from_me |-> msgs[m].direction = "outbound"]

\* The loop of list_chats over the page from its n-th row on: the possible
\* lists of chats, or the failure of a last-message query.
RECURSIVE ChatsFrom(_, _, _, _)
ChatsFrom(rows, n, include_last_message, fault) ==
    IF n > Len(rows) THEN {[failed |-> FALSE, chats |-> <<>>]}
    ELSE IF include_last_message /\ fault.at = "last" /\ fault.i = n
    THEN {[failed |-> TRUE, chats |-> <<>>]}
    ELSE {[failed |-> t.failed, chats |-> <<ChatOf(rows[n], m)>> \o t.chats] :
            m \in (IF include_last_message THEN LastMessageOf(rows[n]) ELSE {0}),
            t \in ChatsFrom(rows, n + 1, include_last_message, fault)}

\* The page list_chats returns when the store answers its query with the
\* ordering o.
ChatsPage(o, limit, page) == Range(o, page * limit, page * limit + limit - 1)

\* list_chats(query, limit, page, include_last_message, sort_by)
list_chats(query, limit, page, include_last_message, sort_by, fault) ==
    IF fault.at = "query"
    THEN {[raised |-> FALSE, failed |-> TRUE, value |-> [chats |-> <<>>, rows |-> <<>>]]}
    ELSE LET matched == {i \in ConvIds :
                            /\ convs[i].channel = WHATSAPP
                            /\ Truthy(query) => NameOrIdentifierLike(i, query)}
             rank == IF sort_by = "last_active" THEN LastActiveRank ELSE NameRank
         IN UNION {
              {[raised |-> FALSE, failed |-> c.failed,
                value |-> [chats |-> IF c.failed THEN <<>> ELSE c.chats,
                           rows |-> IF c.failed THEN <<>> ELSE rows]] :
                  c \in ChatsFrom(rows, 1, include_last_message, fault)}
              : rows \in {ChatsPage(o, limit, page) : o \in Orderings(matched, rank)}}

\* limit(50) of search_contacts
SearchLimit == 50

\* The rows search_contacts asks for.
SearchRowsWithGroups(query) ==
    {i \in ConvIds : convs[i].channel = WHATSAPP /\ NameOrIdentifierLike(i, query)}

SearchRows(query) ==
    {i \in ConvIds : /\ convs[i].channel = WHATSAPP
                     /\ NotGroup(i)
                     /\ NameOrIdentifierLike(i, query)}

\* search_contacts(query)
search_contacts(query, fault) ==
    IF fault.at = "query"
    THEN {[raised |-> FALSE, failed |-> TRUE, value |-> [contacts |-> <<>>, rows |-> <<>>]]}
    ELSE {LET rows == Limit(o, SearchLimit)
          IN [raised |-> FALSE, failed |-> FALSE,
              value |-> [contacts |->
                            [n \in 1..Len(rows) |->
                               [phone_number |-> BeforeAt(convs[rows[n]].contact_identifier),
                                name |-> convs[rows[n]].contact_name,
                                jid |-> convs[rows[n]].contact_identifier]],
                         rows |-> rows]]
          : o \in Orderings(SearchRows(query), NameRank)}

\* get_contact_chats(jid, limit, page)
get_contact_chats(jid, limit, page, fault) ==
    IF fault.at = "query"
    THEN {[raised |-> FALSE, failed |-> TRUE, value |-> [chats |-> <<>>, rows |-> <<>>]]}
    ELSE {LET rows == Range(o, page * limit, (page + 1) * limit - 1)
          IN [raised |-> FALSE, failed |-> FALSE,
              value |-> [chats |-> [n \in 1..Len(rows) |-> ChatDict(rows[n], 0)],
                         rows |-> rows]]
          : o \in Orderings(ConvsByIdentifier(jid), LastActiveNullsFirstRank)}

\* get_last_interaction(jid)
get_last_interaction(jid, fault) ==
    IF fault.at = "query" /\ fault.k = 1
    THEN {[raised |-> FALSE, failed |-> TRUE, value |-> NoneResult]}
    ELSE UNION {
           IF c = 0 THEN {[raised |-> FALSE, failed |-> FALSE, value |-> NoneResult]}
           ELSE IF fault.at = "query" /\ fault.k = 2
           THEN {[raised |-> FALSE, failed |-> TRUE, value |-> NoneResult]}
           ELSE UNION {
                  IF m = 0
                  THEN {[raised |-> FALSE, failed |-> FALSE, value |-> NoneResult]}
                  ELSE {[raised |-> FALSE, failed |-> f.failed,
                         value |-> [kind |-> "lines", lines |-> <<f.line>>]] :
                          f \in format_message(
                                  row_to_message(Unjoined(m), convs[c].contact_name),
                                  TRUE,
                                  IF fault.at = "name" /\ fault.i = 1 THEN fault.k ELSE 0)}
                  : m \in LastMessageOf(c)}
           : c \in AnyOf(ConvsByIdentifier(jid))}

\* ChatWithLast swallowing the failure of its last-message query: the chat
\* is returned without its last message.
ChatWithLastPartial(c, include_last_message, fault) ==
    IF c = 0 THEN {[raised |-> FALSE, failed |-> FALSE, value |-> NoneResult]}
    ELSE IF ~include_last_message
    THEN {[raised |-> FALSE, failed |-> FALSE,
           value |-> [kind |-> "chat", chat |-> ChatDict(c, 0)]]}
    ELSE {[raised |-> FALSE, failed |-> fault.at = "query" /\ fault.k = 2,
           value |-> [kind |-> "chat", chat |-> ChatDict(c, 0)]]}

\* What get_chat and get_direct_chat_by_contact do with the row c their
\* first query returned (0: none).
ChatWithLast(c, include_last_message, fault) ==
    IF c = 0 THEN {[raised |-> FALSE, failed |-> FALSE, value |-> NoneResult]}
    ELSE IF ~include_last_message
    THEN {[raised |-> FALSE, failed |-> FALSE,
           value |-> [kind |-> "chat", chat |-> ChatDict(c, 0)]]}
    ELSE IF fault.at = "query" /\ fault.k = 2
    THEN {[raised |-> FALSE, failed |-> TRUE, value |-> NoneResult]}
    ELSE {[raised |-> FALSE, failed |-> FALSE,
           value |-> [kind |-> "chat", chat |-> ChatDict(c, m)]] : m \in LastMessageOf(c)}

\* get_chat(chat_jid, include_last_message)
get_chat(chat_jid, include_last_message, fault) ==
    IF fault.at = "query" /\ fault.k = 1
    THEN {[raised |-> FALSE, failed |-> TRUE, value |-> NoneResult]}
    ELSE UNION {ChatWithLast(c, include_last_message, fault) :
                  c \in AnyOf(ConvsByIdentifier(chat_jid))}

\* get_direct_chat_by_contact(sender_phone_number)
get_direct_chat_by_contact(sender_phone_number, fault) ==
    IF fault.at = "query" /\ fault.k = 1
    THEN {[raised |-> FALSE, failed |-> TRUE, value |-> NoneResult]}
    ELSE UNION {ChatWithLast(c, TRUE, fault) :
                  c \in AnyOf({i \in ConvIds :
                                 /\ convs[i].channel = WHATSAPP
                                 /\ ILike(convs[i].contact_identifier,
                                          Contains(sender_phone_number))
                                 /\ NotGroup(i)})}

\* get_sender_name as an operation: it returns in every case.
SenderName(sender_jid, k) ==
    {[raised |-> FALSE, failed |-> n.failed, value |-> n.value] :
        n \in get_sender_name(sender_jid, k)}

(* ------------------- the context window: inputs ------------------------ *)

Jid123 == <<"1", "2", "3">> \o UserSuffix

Jid999 == <<"9", "9", "9">> \o UserSuffix

Group123 == <<"1", "2", "3">> \o GroupSuffix

Hello == <<"h", "e", "l", "l", "o">>

MaxMsgsW == 3

\* The timestamps and the window sizes the calls are made with.
TimesW == {1, 2, 3}

CountsW == {1, 2}

W_save_message ==
    /\ Len(msgs) < MaxMsgsW
    /\ \E jid \in {Jid123, Jid999}, t \in TimesW :
         save_message(jid, jid, ME, Hello, "inbound", None, None, t, t, 0)

W_get_message_context ==
    \E id \in 1..(MaxMsgsW + 1), before \in CountsW, after \in CountsW, k \in 0..3 :
      /\ k # 0 => before = 1 /\ after = 1
      /\ \E o \in get_message_context(id, before, after, k) :
           Read("get_message_context",
                [message_id |-> id, before |-> before, after |-> after],
                Fault("query", 0, k), o)

NextW == W_save_message \/ W_get_message_context

SpecW == Init /\ [][NextW]_vars

(* ------------------- the context window: properties -------------------- *)

IsContext == ret.op = "get_message_context" /\ ~ret.raised

\* ts(window): the created_at of the window's messages, in window order.
WindowIds == Ids(ret.result.before) \o <<ret.result.message.id>> \o Ids(ret.result.after)

SameConversation ==
    \A n \in 1..Len(WindowIds) :
        msgs[WindowIds[n]].conversation_id = msgs[ret.args.message_id].conversation_id

WithinCounts ==
    /\ Len(ret.result.before) <= ret.args.before
    /\ Len(ret.result.after) <= ret.args.after

\* C1 as stated: get_message_context returns at most `before` preceding and
\* at most `after` following messages, all of the anchor's conversation, and
\* before ++ [anchor] ++ after is strictly increasing in created_at, so that
\* no two returned messages share a timestamp.
C1_StrictlyIncreasing ==
    IsContext =>
        /\ WithinCounts
        /\ SameConversation
        /\ \A m, n \in 1..Len(WindowIds) :
              m < n => msgs[WindowIds[m]].created_at < msgs[WindowIds[n]].created_at

\* C1 amended: get_message_context returns at most `before` preceding and at
\* most `after` following messages, all of the anchor's conversation; the
\* sequence before ++ [anchor] ++ after is non-decreasing in created_at, every
\* before-entry is strictly earlier and every after-entry strictly later than
\* the anchor; two before-entries, or two after-entries, may share a
\* timestamp.
C1_WindowOrdered ==
    IsContext =>
        /\ WithinCounts
        /\ SameConversation
        /\ ret.result.message.id = ret.args.message_id
        /\ \A m, n \in 1..Len(WindowIds) :
              m < n => msgs[WindowIds[m]].created_at <= msgs[WindowIds[n]].created_at
        /\ \A n \in 1..Len(ret.result.before) :
              ret.result.before[n].timestamp < ret.result.message.timestamp
        /\ \A n \in 1..Len(ret.result.after) :
              ret.result.after[n].timestamp > ret.result.message.timestamp

\* C1's case: a window cut on the before side: two earlier messages of the
\* anchor's conversation, one asked for, one returned.
C1_Witness ==
    /\ IsContext
    /\ ret.args.before = 1
    /\ Len(ret.result.before) = 1
    /\ Cardinality(RowsBefore(msgs[ret.args.message_id].conversation_id,
                              msgs[ret.args.message_id].created_at)) = 2

\* C4: get_message_context with an id that is in no message row raises to
\* its caller, returns no MessageContext, and leaves the store unchanged.
C4_MissingAnchorRaises ==
    [][(ret'.op = "get_message_context" /\ ret'.args.message_id \notin MsgIds)
          => /\ ret'.raised
             /\ ret'.result = Raised
             /\ convs' = convs
             /\ msgs' = msgs]_vars

\* C4's case: the anchor is missing from a store that holds messages, and no
\* remote call failed.
C4_Witness ==
    /\ ret.op = "get_message_context"
    /\ ret.args.message_id \notin MsgIds
    /\ ret.fault.k = 0
    /\ ret.raised
    /\ msgs # <<>>

(* --------------------- saving and reading back ------------------------- *)

MaxMsgsS == 2

S_save_message ==
    /\ Len(msgs) < MaxMsgsS
    /\ \E jid \in {Jid123, Jid999}, sender \in {EmptyStr, Jid123},
          recipient \in {EmptyStr, Jid999}, direction \in {"inbound", "outbound"} :
         save_message(jid, sender, recipient, Hello, direction, None, None,
                      NoneInt, clock, 0)

S_get_message_context ==
    \E id \in 1..(MaxMsgsS + 1), k \in 0..1 :
      \E o \in get_message_context(id, 1, 1, k) :
         Read("get_message_context", [message_id |-> id, before |-> 1, after |-> 1],
              Fault("query", 0, k), o)

NextS == S_save_message \/ S_get_message_context

SpecS == Init /\ [][NextS]_vars

\* The successful save_message calls that returned the id the last
\* get_message_context was asked for.
SavedAnchor == {n \in 1..Len(saved) : saved[n].id = ret.args.message_id}

\* C3 as stated: a message saved with direction "outbound" and read back by
\* get_message_context has is_from_me = true and chat_jid = the recipient
\* argument; saved "inbound", is_from_me = false and chat_jid = the sender.
C3_ChatJidIsArgument ==
    IsContext =>
        \A n \in SavedAnchor :
            LET a == saved[n].args
            IN /\ a.direction = "outbound" =>
                    ret.result.message.is_from_me /\ ret.result.message.chat_jid = a.recipient
               /\ a.direction = "inbound" =>
                    ~ret.result.message.is_from_me /\ ret.result.message.chat_jid = a.sender

\* C3 amended: a message saved with direction "outbound" and read back has
\* is_from_me = true and chat_jid = the recipient argument when that is not
\* empty, else the conversation_jid it was saved under; saved "inbound",
\* is_from_me = false and chat_jid = the sender argument when that is not
\* empty, else the conversation_jid.
C3_RoundTrip ==
    IsContext =>
        \A n \in SavedAnchor :
            LET a == saved[n].args
                m == ret.result.message
            IN /\ a.direction = "outbound" =>
                    /\ m.is_from_me
                    /\ m.chat_jid = IF a.recipient # EmptyStr THEN a.recipient
                                    ELSE a.conversation_jid
               /\ a.direction = "inbound" =>
                    /\ ~m.is_from_me
                    /\ m.chat_jid = IF a.sender # EmptyStr THEN a.sender
                                    ELSE a.conversation_jid

\* C3's case: an outbound message saved under one identifier with another
\* as its recipient, read back as the anchor.
C3_Witness ==
    /\ IsContext
    /\ \E n \in SavedAnchor :
          /\ saved[n].args.direction = "outbound"
          /\ saved[n].args.recipient = Jid999
          /\ saved[n].args.conversation_jid = Jid123
          /\ ret.result.message.chat_jid = Jid999

(* ------------------------ failures while saving ------------------------ *)

Alice == <<"A", "l", "i", "c", "e">>

MaxMsgsF == 2

\* save_message, any one of its remote calls failing or none.
F_save_message ==
    /\ Len(msgs) < MaxMsgsF
    /\ \E jid \in {Jid123, Jid999}, k \in 0..4 :
         save_message(jid, jid, ME, Hello, "inbound", None, None, NoneInt, clock, k)

F_update_contact_name ==
    \E jid \in {Jid123, Jid999}, k \in 0..1 : update_contact_name(jid, Alice, k)

NextF == F_save_message \/ F_update_contact_name

SpecF == Init /\ [][NextF]_vars

RowsWithIdentifier(jid) == {i \in ConvIds : convs[i].contact_identifier = jid}

\* C2: two save_message calls with the same conversation_jid, no
\* conversation with that identifier existing before the first, leave exactly
\* one conversation row with that contact_identifier, and both message rows
\* carry that row's id.
C2_OneConversationPerJid ==
    \A a, b \in 1..Len(saved) :
        (a < b /\ saved[a].args.conversation_jid = saved[b].args.conversation_jid) =>
            /\ Cardinality(RowsWithIdentifier(saved[a].args.conversation_jid)) = 1
            /\ msgs[saved[a].id].conversation_id
                  \in RowsWithIdentifier(saved[a].args.conversation_jid)
            /\ msgs[saved[b].id].conversation_id = msgs[saved[a].id].conversation_id

\* C2's case: two successful calls for one identifier, after a call for
\* another identifier created the first conversation row.
C2_Witness ==
    /\ Len(saved) = 2
    /\ saved[1].args.conversation_jid = Jid999
    /\ saved[2].args.conversation_jid = Jid999
    /\ Len(convs) = 2
    /\ convs[1].contact_identifier = Jid123

IsPrefix(s, t) == Len(s) <= Len(t) /\ SubSeq(t, 1, Len(s)) = s

\* C6: a save_message whose remote call fails (lookup, conversation insert,
\* message insert or last_message_at update) returns None without raising
\* and undoes nothing: rows written before the failure stay, among them the
\* conversation row the call created; a save_message for an identifier that
\* already has a row creates no second one; an update_contact_name whose
\* remote call fails returns false without raising.
C6_FailedWriteReturnsNone ==
    [][/\ (ret'.op = "save_message" /\ ret'.fault # 0) =>
              /\ ~ret'.raised
              /\ ret'.result = NoneInt
              /\ IsPrefix(convs, convs')
              /\ IsPrefix(msgs, msgs')
              /\ (ret'.fault \in {3, 4} /\ ConvsByIdentifier(ret'.args.conversation_jid) = {})
                    => /\ Len(convs') = Len(convs) + 1
                       /\ convs'[Len(convs')].contact_identifier = ret'.args.conversation_jid
              /\ ret'.fault = 4 => Len(msgs') = Len(msgs) + 1
       /\ (ret'.op = "save_message" /\ ConvsByIdentifier(ret'.args.conversation_jid) # {})
              => Len(convs') = Len(convs)
       /\ (ret'.op = "update_contact_name" /\ ret'.fault = 1) =>
              ~ret'.raised /\ ret'.result = FALSE /\ convs' = convs
      ]_vars

\* C6's case: the message insert failed after the call had created the
\* conversation row, which is in the store with no message.
C6_Witness ==
    /\ ret.op = "save_message"
    /\ ret.fault = 3
    /\ ret.result = NoneInt
    /\ \E c \in ConvsByIdentifier(ret.args.conversation_jid) :
          /\ c = Len(convs)
          /\ \A i \in MsgIds : msgs[i].conversation_id # c

(* ------------------ list_messages with its windows --------------------- *)

MaxMsgsL == 3

TimesL == {1, 2}

L_save_message ==
    /\ Len(msgs) < MaxMsgsL
    /\ \E jid \in {Jid123, Jid999}, t \in TimesL :
         save_message(jid, jid, ME, Hello, "inbound", None, None, t, t, 0)

L_list_messages ==
    \E chat_jid \in {None, Jid123}, limit \in {1, 2}, page \in {0, 1},
       include_context \in BOOLEAN, context_before \in CountsW :
      /\ ~include_context => limit = 2 /\ page = 0 /\ context_before = 1
      /\ \E o \in list_messages(NoneInt, NoneInt, None, chat_jid, None, limit, page,
                               include_context, context_before, 1, NoFault) :
           Read("list_messages",
                [after |-> NoneInt, before |-> NoneInt, sender_phone_number |-> None,
                 chat_jid |-> chat_jid, query |-> None, limit |-> limit, page |-> page,
                 include_context |-> include_context,
                 context_before |-> context_before, context_after |-> 1],
                NoFault, o)

NextL == L_save_message \/ L_list_messages

SpecL == Init /\ [][NextL]_vars

Min(a, b) == IF a < b THEN a ELSE b

\* The rows the last list_messages call's filters keep.
FilteredByCall ==
    Filtered(ret.args.after, ret.args.before, ret.args.sender_phone_number,
             ret.args.chat_jid, ret.args.query)

\* s holds the rows at positions offset+1 .. offset+limit of some ordering
\* of the set S by key, greatest first.
IsPageDescending(s, S, key, offset, limit) ==
    /\ Len(s) = Min(limit, IF Cardinality(S) > offset THEN Cardinality(S) - offset ELSE 0)
    /\ \A n \in 1..Len(s) :
          /\ s[n] \in S
          /\ \A m \in 1..Len(s) : m # n => s[m] # s[n]
          /\ Cardinality({y \in S : key[y] > key[s[n]]}) <= offset + n - 1
          /\ Cardinality({y \in S : key[y] >= key[s[n]]}) >= offset + n
    /\ \A m, n \in 1..Len(s) : m < n => key[s[m]] >= key[s[n]]

\* The sizes of the windows of the page's n-th message.
SizeBefore(n) ==
    Min(ret.args.context_before,
        Cardinality(RowsBefore(msgs[ret.result.page[n]].conversation_id,
                               msgs[ret.result.page[n]].created_at)))

SizeAfter(n) ==
    Min(ret.args.context_after,
        Cardinality(RowsAfter(msgs[ret.result.page[n]].conversation_id,
                              msgs[ret.result.page[n]].created_at)))

\* Where the n-th window starts in the expanded list (0-based).
RECURSIVE WindowStart(_)
WindowStart(n) ==
    IF n = 1 THEN 0 ELSE WindowStart(n - 1) + SizeBefore(n - 1) + 1 + SizeAfter(n - 1)

\* The n-th window of the expanded list is the anchor's before-window, the
\* anchor, its after-window: the nearest rows of its conversation on either
\* side, each side in chronological order.
IsWindow(n) ==
    LET x == ret.result.expanded
        a == ret.result.page[n]
        c == msgs[a].conversation_id
        t == msgs[a].created_at
        st == WindowStart(n)
        B == [j \in 1..SizeBefore(n) |-> x[st + j]]
        A == [j \in 1..SizeAfter(n) |-> x[st + SizeBefore(n) + 1 + j]]
    IN /\ Len(x) >= st + SizeBefore(n) + 1 + SizeAfter(n)
       /\ x[st + SizeBefore(n) + 1] = a
       /\ \A j \in 1..Len(B) :
             /\ B[j] \in RowsBefore(c, t)
             /\ \A i \in 1..Len(B) : i < j =>
                   B[i] # B[j] /\ msgs[B[i]].created_at <= msgs[B[j]].created_at
             /\ \A y \in RowsBefore(c, t) :
                   (\A i \in 1..Len(B) : B[i] # y) => msgs[y].created_at <= msgs[B[j]].created_at
       /\ \A j \in 1..Len(A) :
             /\ A[j] \in RowsAfter(c, t)
             /\ \A i \in 1..Len(A) : i < j =>
                   A[i] # A[j] /\ msgs[A[i]].created_at <= msgs[A[j]].created_at
             /\ \A y \in RowsAfter(c, t) :
                   (\A i \in 1..Len(A) : A[i] # y) => msgs[y].created_at >= msgs[A[j]].created_at

IsExpandedList ==
    /\ ret.op = "list_messages"
    /\ ret.args.include_context
    /\ ~ret.failed
    /\ ret.result.page # <<>>

\* C7: with include_context set and a non-empty page, list_messages outputs
\* for each message of the page, in the page's newest-first order, its
\* before-window, the message, its after-window, one line per entry and
\* nothing removed; the page is rows page*limit .. page*limit+limit-1 of the
\* filtered messages by created_at descending.
C7_WindowsConcatenated ==
    IsExpandedList =>
        /\ IsPageDescending(ret.result.page, FilteredByCall, Ascending,
                            ret.args.page * ret.args.limit, ret.args.limit)
        /\ Len(ret.result.page) <= ret.args.limit
        /\ \A n \in 1..Len(ret.result.page) : IsWindow(n)
        /\ Len(ret.result.expanded) = WindowStart(Len(ret.result.page) + 1)
        /\ ret.result.text.kind = "lines"
        /\ Len(ret.result.text.lines) = Len(ret.result.expanded)
        /\ \A j \in 1..Len(ret.result.expanded) :
              /\ ret.result.text.lines[j].stamp = msgs[ret.result.expanded[j]].created_at
              /\ ret.result.text.lines[j].content = msgs[ret.result.expanded[j]].body

\* C7's case: a page of two messages whose windows overlap, so that a message
\* is output twice.
C7_Witness ==
    /\ IsExpandedList
    /\ Len(ret.result.page) = 2
    /\ \E i, j \in 1..Len(ret.result.expanded) :
          i < j /\ ret.result.expanded[i] = ret.result.expanded[j]

(* ----------------------- reads that never raise ------------------------ *)

MaxMsgsR == 2

TimesR == {1, 2}

Digits123 == <<"1", "2", "3">>

R_save_message ==
    /\ Len(msgs) < MaxMsgsR
    /\ \E jid \in {Jid123, Jid999}, t \in TimesR :
         save_message(jid, jid, ME, Hello, "inbound", None, None, t, t, 0)

R_update_contact_name == update_contact_name(Jid123, Alice, 0)

R_get_sender_name ==
    \E sender_jid \in {Jid123, Jid999}, k \in 0..2 :
      \E o \in SenderName(sender_jid, k) :
         Read("get_sender_name", [sender_jid |-> sender_jid], Fault("query", 0, k), o)

\* The lines list_messages may format: with include_context, each of the
\* page's messages (at most the limit, MaxMsgsR) gives a window of at most
\* context_before + 1 + context_after = 3 lines.
MaxLinesR == MaxMsgsR * (1 + 1 + 1)

\* The calls of list_messages that may fail: its query, a call of the
\* get_message_context of a page entry, a call of the get_sender_name of a
\* formatted line.
FaultsOfListMessages ==
    {NoFault, Fault("query", 0, 1)}
        \cup {Fault("ctx", i, k) : i \in 1..MaxMsgsR, k \in 1..3}
        \cup {Fault("name", i, k) : i \in 1..MaxLinesR, k \in 1..2}

R_list_messages ==
    \E include_context \in BOOLEAN, fault \in FaultsOfListMessages :
      \E o \in list_messages(NoneInt, NoneInt, None, None, None, MaxMsgsR, 0,
                               include_context, 1, 1, fault) :
         Read("list_messages",
              [after |-> NoneInt, before |-> NoneInt, sender_phone_number |-> None,
               chat_jid |-> None, query |-> None, limit |-> MaxMsgsR, page |-> 0,
               include_context |-> include_context,
               context_before |-> 1, context_after |-> 1],
              fault, o)

R_list_chats ==
    \E include_last_message \in BOOLEAN,
       fault \in {NoFault, Fault("query", 0, 1)}
                   \cup {Fault("last", i, 1) : i \in 1..MaxMsgsR} :
      \E o \in list_chats(None, MaxMsgsR, 0, include_last_message, "last_active", fault) :
         Read("list_chats",
              [query |-> None, limit |-> MaxMsgsR, page |-> 0,
               include_last_message |-> include_last_message,
               sort_by |-> "last_active"],
              fault, o)

R_search_contacts ==
    \E fault \in {NoFault, Fault("query", 0, 1)} :
      \E o \in search_contacts(Digits123, fault) :
         Read("search_contacts", [query |-> Digits123], fault, o)

R_get_contact_chats ==
    \E jid \in {Jid123, Jid999}, fault \in {NoFault, Fault("query", 0, 1)} :
      \E o \in get_contact_chats(jid, MaxMsgsR, 0, fault) :
         Read("get_contact_chats", [jid |-> jid, limit |-> MaxMsgsR, page |-> 0],
              fault, o)

R_get_last_interaction ==
    \E jid \in {Jid123, Jid999},
       fault \in {NoFault} \cup {Fault("query", 0, k) : k \in 1..2}
                   \cup {Fault("name", 1, k) : k \in 1..2} :
      \E o \in get_last_interaction(jid, fault) :
         Read("get_last_interaction", [jid |-> jid], fault, o)

R_get_chat ==
    \E chat_jid \in {Jid123, Jid999}, include_last_message \in BOOLEAN,
       fault \in {NoFault} \cup {Fault("query", 0, k) : k \in 1..2} :
      \E o \in get_chat(chat_jid, include_last_message, fault) :
         Read("get_chat",
              [chat_jid |-> chat_jid, include_last_message |-> include_last_message],
              fault, o)

R_get_direct_chat_by_contact ==
    \E fault \in {NoFault} \cup {Fault("query", 0, k) : k \in 1..2} :
      \E o \in get_direct_chat_by_contact(Digits123, fault) :
         Read("get_direct_chat_by_contact", [sender_phone_number |-> Digits123],
              fault, o)

NextR ==
    \/ R_save_message
    \/ R_update_contact_name
    \/ R_get_sender_name
    \/ R_list_messages
    \/ R_list_chats
    \/ R_search_contacts
    \/ R_get_contact_chats
    \/ R_get_last_interaction
    \/ R_get_chat
    \/ R_get_direct_chat_by_contact

SpecR == Init /\ [][NextR]_vars

ReadOps ==
    {"get_sender_name", "list_messages", "list_chats", "search_contacts",
     "get_contact_chats", "get_last_interaction", "get_chat",
     "get_direct_chat_by_contact"}

\* The last operation returned its safe default: the input identifier, the
\* "Error: ..." string, the empty list, or None.
ReturnedSafeDefault ==
    CASE ret.op = "get_sender_name" -> ret.result = ret.args.sender_jid
      [] ret.op = "list_messages" -> ret.result.text = ErrorText
      [] ret.op = "list_chats" -> ret.result.chats = <<>>
      [] ret.op = "search_contacts" -> ret.result.contacts = <<>>
      [] ret.op = "get_contact_chats" -> ret.result.chats = <<>>
      [] OTHER -> ret.result = NoneResult

\* The last operation returned the formatted lines, the line whose name
\* lookup failed carrying the raw sender identifier.
ReturnedLinesWithRawSender ==
    \/ /\ ret.op = "list_messages"
       /\ ret.result.text.kind = "lines"
       /\ ret.result.text.lines[ret.fault.i].from
             = msgs[ret.result.expanded[ret.fault.i]].sender
    \/ /\ ret.op = "get_last_interaction"
       /\ ret.result.kind = "lines"
       /\ \E m \in MsgIds : ret.result.lines[1].from = msgs[m].sender

\* C5 as stated: a read other than get_message_context never raises, and
\* when any remote call made during it fails, at whichever step, it returns
\* its safe default.
C5_AnyFailureGivesDefault ==
    ret.op \in ReadOps =>
        /\ ~ret.raised
        /\ ret.failed => ReturnedSafeDefault

\* C5 amended: a read other than get_message_context never raises; when a
\* remote call of the operation itself, or of the get_message_context nested
\* in list_messages, fails, it returns its safe default; when the failing
\* call is one get_sender_name makes while a line is formatted, the
\* operation returns the formatted lines with the raw sender identifier in
\* that line.
C5_ReadsNeverRaise ==
    ret.op \in ReadOps =>
        /\ ~ret.raised
        /\ (ret.failed /\ ret.fault.at # "name") => ReturnedSafeDefault
        /\ (ret.failed /\ ret.fault.at = "name") => ReturnedLinesWithRawSender
        /\ ret.op = "list_messages" =>
              ret.result.text.kind \in {"lines", "no_messages", "error"}

\* C5's case: list_messages with include_context set, the nested
\* get_message_context of a page entry raised, and the "Error: ..." string
\* came back.
C5_Witness ==
    /\ ret.op = "list_messages"
    /\ ret.args.include_context
    /\ ret.fault.at = "ctx"
    /\ ret.failed
    /\ ~ret.raised
    /\ ret.result.text = ErrorText
    /\ Len(ret.result.page) = 2

(* ------------------------- resolving a name ---------------------------- *)

Bob == <<"B", "o", "b">>

\* An identifier without '@'.
Digits12 == <<"1", "2">>

MaxMsgsN == 3

N_save_message ==
    /\ Len(msgs) < MaxMsgsN
    /\ \E jid \in {Jid123, Jid999, Group123} :
         save_message(jid, jid, ME, Hello, "inbound", None, None, NoneInt, clock, 0)

N_update_contact_name ==
    \E jid \in {Jid123, Jid999, Group123}, name \in {Alice, Bob, EmptyStr} :
      update_contact_name(jid, name, 0)

N_get_sender_name ==
    \E sender_jid \in {Jid123, Jid999, Group123, Digits12}, k \in 0..2 :
      \E o \in SenderName(sender_jid, k) :
         Read("get_sender_name", [sender_jid |-> sender_jid], Fault("query", 0, k), o)

NextN == N_save_message \/ N_update_contact_name \/ N_get_sender_name

SpecN == Init /\ [][NextN]_vars

\* The conversations whose identifier equals id, and those whose identifier
\* contains the part of id before '@'.
ExactRows(id) ==
    {i \in ConvIds : convs[i].channel = WHATSAPP /\ convs[i].contact_identifier = id}

ContainingRows(id) ==
    {i \in ConvIds : convs[i].channel = WHATSAPP
                     /\ IsSubstring(BeforeAt(id), convs[i].contact_identifier)}

Named(S) == {i \in S : Truthy(convs[i].contact_name)}

NamesOf(S) == {convs[i].contact_name : i \in Named(S)}

\* C8: get_sender_name(id) never raises and resolves in a fixed order: the
\* contact_name of the conversation whose identifier equals id when that row
\* has a non-empty name; otherwise the contact_name of a conversation whose
\* identifier contains the part of id before '@' (the row the store
\* returns, when it has a name); otherwise id. When no conversation's
\* identifier equals or contains that part, or a remote call fails, the
\* result is id.
C8_ResolutionOrder ==
    ret.op = "get_sender_name" =>
        LET id == ret.args.sender_jid
        IN /\ ~ret.raised
           /\ ret.failed => ret.result = id
           /\ ~ret.failed =>
                 IF ExactRows(id) # {} /\ Named(ExactRows(id)) = ExactRows(id)
                 THEN ret.result \in NamesOf(ExactRows(id))
                 ELSE IF Named(ContainingRows(id)) = {}
                 THEN ret.result = id
                 ELSE IF Named(ContainingRows(id)) = ContainingRows(id)
                 THEN ret.result \in NamesOf(ContainingRows(id))
                 ELSE ret.result \in NamesOf(ContainingRows(id)) \cup {id}

\* C8's case: no conversation has the identifier asked for, one whose
\* identifier contains its numeric part has a name, and that name is the
\* result.
C8_Witness ==
    /\ ret.op = "get_sender_name"
    /\ ~ret.failed
    /\ ExactRows(ret.args.sender_jid) = {}
    /\ HasAt(ret.args.sender_jid)
    /\ ret.result = Alice
    /\ \E i \in ConvIds : convs[i].contact_name = Bob

(* --------------------- chats by last activity -------------------------- *)

MaxMsgsC == 3

TimesC == {1, 2, 3}

LimitsC == {2, 3}

\* save_message succeeding, or failing at its message insert (which leaves
\* a new conversation without last_message_at).
C_save_message ==
    /\ Len(msgs) < MaxMsgsC
    /\ \E jid \in {Jid123, Jid999, Group123}, t \in TimesC, k \in {0, 3} :
         /\ k = 3 => t = 1
         /\ save_message(jid, jid, ME, Hello, "inbound", None, None, t, t, k)

\* The calls of list_chats: pages by last activity, and one call by name
\* with a query and the last messages.
C_list_chats ==
    \E query \in {None, Digits123}, limit \in LimitsC, page \in {0, 1},
       include_last_message \in BOOLEAN, sort_by \in {"last_active", "name"} :
      /\ sort_by = "last_active" =>
            /\ ~include_last_message
            /\ query = Digits123 => (limit = 3 /\ page = 0)
      /\ sort_by = "name" =>
            (query = Digits123 /\ include_last_message /\ limit = 2 /\ page = 0)
      /\ \E o \in list_chats(query, limit, page, include_last_message, sort_by, NoFault) :
           Read("list_chats",
                [query |-> query, limit |-> limit, page |-> page,
                 include_last_message |-> include_last_message, sort_by |-> sort_by],
                NoFault, o)

NextC == C_save_message \/ C_list_chats

SpecC == Init /\ [][NextC]_vars

\* The conversations the last list_chats call's query matches.
MatchedByCall ==
    {i \in ConvIds : Truthy(ret.args.query) =>
        \/ (convs[i].contact_name # None
              /\ IsSubstring(ret.args.query, convs[i].contact_name))
        \/ IsSubstring(ret.args.query, convs[i].contact_identifier)}

\* The last activity as a sort key: a conversation without last_message_at
\* below every one that has it (timestamps are positive).
LastActivityKey ==
    [i \in ConvIds |-> IF convs[i].last_message_at = NoneInt THEN 0
                       ELSE convs[i].last_message_at]

\* C9: list_chats with sort_by = "last_active" returns the matching
\* conversations in non-increasing order of last_message_at, those without
\* last_message_at after all that have one, and exactly the slice at
\* positions page * limit .. page * limit + limit - 1 of that ordering.
C9_LastActiveSlice ==
    (ret.op = "list_chats" /\ ret.args.sort_by = "last_active" /\ ~ret.failed) =>
        /\ IsPageDescending(ret.result.rows, MatchedByCall, LastActivityKey,
                            ret.args.page * ret.args.limit, ret.args.limit)
        /\ Len(ret.result.chats) = Len(ret.result.rows)
        /\ \A n \in 1..Len(ret.result.rows) :
              /\ ret.result.chats[n].jid = convs[ret.result.rows[n]].contact_identifier
              /\ ret.result.chats[n].last_message_time
                    = convs[ret.result.rows[n]].last_message_at
        /\ \A m, n \in 1..Len(ret.result.chats) :
              (m < n /\ ret.result.chats[n].last_message_time # NoneInt) =>
                  /\ ret.result.chats[m].last_message_time # NoneInt
                  /\ ret.result.chats[m].last_message_time
                        >= ret.result.chats[n].last_message_time

\* C9's case: three conversations with last activity 1, 3, 2 come back as
\* 3, 2, 1.
C9_Witness ==
    /\ ret.op = "list_chats"
    /\ ret.args.sort_by = "last_active"
    /\ Len(convs) = 3
    /\ [i \in ConvIds |-> convs[i].last_message_at] = <<1, 3, 2>>
    /\ ret.result.rows = <<2, 3, 1>>
    /\ [n \in 1..Len(ret.result.chats) |-> ret.result.chats[n].last_message_time]
          = <<3, 2, 1>>

(* ------------------------ searching contacts --------------------------- *)

\* The conversations saved, enough for more than SearchLimit contacts to
\* match one query.
MaxConvsK == 56

\* Every GroupEveryK-th conversation saved is a group.
GroupEveryK == 10

TwoDigits(n) == <<DigitChars[(n \div 10) + 1], DigitChars[(n % 10) + 1]>>

\* The suffix of a user identifier in its older form.
LegacySuffix == <<"@", "c", ".", "u", "s">>

\* The identifier of the n-th conversation saved.
JidK(n) == TwoDigits(n) \o (IF n % GroupEveryK = 0 THEN GroupSuffix ELSE LegacySuffix)

\* The name given to the n-th conversation: one per conversation, and not
\* in the order of saving.
NameK(n) == <<LowerChars[((n * 7) % 26) + 1]>> \o TwoDigits(n)

\* The next conversation is saved once every saved one has been named.
K_save_message ==
    /\ Len(convs) < MaxConvsK
    /\ \A i \in ConvIds : convs[i].contact_name # None
    /\ save_message(JidK(Len(convs) + 1), JidK(Len(convs) + 1), ME, Hello, "inbound",
                    None, None, NoneInt, clock, 0)

K_update_contact_name ==
    \E i \in ConvIds :
      /\ convs[i].contact_name = None
      /\ update_contact_name(convs[i].contact_identifier, NameK(i), 0)

K_search_contacts ==
    \E query \in {<<"u", "s">>, <<"1">>}, fault \in {NoFault, Fault("query", 0, 1)} :
      /\ fault # NoFault => query = <<"1">>
      /\ \E o \in search_contacts(query, fault) :
           Read("search_contacts", [query |-> query], fault, o)

NextK == K_save_message \/ K_update_contact_name \/ K_search_contacts

SpecK == Init /\ [][NextK]_vars

\* C10: search_contacts returns at most 50 contacts, none of them with a jid
\* ending in "@g.us", and each phone_number is the part of the jid before its
\* first '@' (the whole jid when it has no '@').
C10_AtMostFiftyNoGroups ==
    ret.op = "search_contacts" =>
        /\ Len(ret.result.contacts) <= SearchLimit
        /\ \A n \in 1..Len(ret.result.contacts) :
              LET c == ret.result.contacts[n]
              IN /\ ~EndsWith(c.jid, GroupSuffix)
                 /\ c.jid = convs[ret.result.rows[n]].contact_identifier
                 /\ IF \E i \in 1..Len(c.jid) : c.jid[i] = "@"
                    THEN /\ \A i \in 1..Len(c.phone_number) : c.phone_number[i] # "@"
                         /\ c.jid[Len(c.phone_number) + 1] = "@"
                         /\ SubSeq(c.jid, 1, Len(c.phone_number)) = c.phone_number
                    ELSE c.phone_number = c.jid

\* C10's case: more than 50 contacts and some groups match the query, and
\* 50 contacts come back.
C10_Witness ==
    /\ ret.op = "search_contacts"
    /\ ~ret.failed
    /\ Len(ret.result.contacts) = SearchLimit
    /\ Cardinality({i \in ConvIds :
                       /\ IsSubstring(ret.args.query, convs[i].contact_identifier)
                       /\ ~EndsWith(convs[i].contact_identifier, GroupSuffix)})
          > SearchLimit
    /\ \E i \in ConvIds :
          /\ IsSubstring(ret.args.query, convs[i].contact_identifier)
          /\ EndsWith(convs[i].contact_identifier, GroupSuffix)

(* -------------------- last activity of a conversation ------------------ *)

MaxMsgsT == 3

\* The clock readings datetime.utcnow() may give.
MaxClockT == 3

\* The explicit timestamps the calls are made with.
TimesT == {1, 2, 3}

\* save_message succeeding, with an explicit timestamp or with the clock's
\* reading, which never runs backwards.
T_save_message ==
    /\ Len(msgs) < MaxMsgsT
    /\ \E jid \in {Jid123, Jid999}, timestamp \in {NoneInt} \cup TimesT,
          now \in 1..MaxClockT :
         save_message(jid, jid, ME, Hello, "inbound", None, None, timestamp, now, 0)

T_get_chat ==
    \E chat_jid \in {Jid123, Jid999} :
      \E o \in get_chat(chat_jid, TRUE, NoFault) :
         Read("get_chat", [chat_jid |-> chat_jid, include_last_message |-> TRUE],
              NoFault, o)

NextT == T_save_message \/ T_get_chat

SpecT == Init /\ [][NextT]_vars

\* The message rows of conversation c.
MessagesOf(c) == {i \in MsgIds : msgs[i].conversation_id = c}

\* C11: after any sequence of successful save_message calls, with or
\* without an explicit timestamp and in any order of timestamps, every
\* conversation's last_message_at equals the greatest created_at among its
\* message rows, so that it agrees with the message get_chat reports as the
\* most recent one.
C11_LastMessageAtIsGreatest ==
    \A c \in ConvIds :
        MessagesOf(c) # {} =>
            /\ \E i \in MessagesOf(c) : msgs[i].created_at = convs[c].last_message_at
            /\ \A i \in MessagesOf(c) : msgs[i].created_at <= convs[c].last_message_at

====
